---- MODULE Spec2Model ----
(***************************************************************************)
(* A model of two programs of the 15445 bootcamp:                          *)
(*   src/src/range_based_for.cpp   : Node, DLL, DLL::DLLIterator, main     *)
(*   src/src/move_constructors.cpp : Person, main                          *)
(* The heap of the first program is a set of numbered Node cells, the heap *)
(* of the second a set of numbered vector buffers.                         *)
(***************************************************************************)
EXTENDS Integers, Sequences, FiniteSets, TLC

\* ------------------------------------------------------------------ bounds
\* Nodes the heap can hold (calls of InsertAtHead in one run).
MaxNodes == 3
\* Largest offset handed to operator+.
MaxOffset == 3

\* The values handed to InsertAtHead.
Values == {1, 2}

\* nullptr.
Null == 0
\* A pointer value that is neither nullptr nor the address of a Node: what a
\* read through nullptr may leave in curr_.
Wild == -1
\* No DLLIterator object has been created yet.
NoIter == -2
\* operator* has not returned anything yet.
NoValue == -1

\* Person objects one run constructs.
MaxPersons == 3
\* Vector buffers one run allocates.
MaxBufs == 2
\* The indices handed to GetNicknameAtI: inside and past the longest list.
Indices == {0, 1, 2}

\* The ages and the nickname lists handed to Person(age, nicknames).
Ages == {15445}
Names == {<<>>, <<"andy", "pavlo">>}

\* A vector that holds no buffer (it is empty).
NoBuf == 0
\* No Person is an operand.
NoPerson == 0

PersonIds == 1..MaxPersons
BufIds == 1..MaxBufs

NodeIds == 1..MaxNodes

VARIABLES
  \* ---- range_based_for.cpp
  head_,      \* DLL::head_
  size_,      \* DLL::size_
  next_,      \* Node::next_ of every cell
  prev_,      \* Node::prev_ of every cell
  value_,     \* Node::value_ of every cell
  nAlloc,     \* cells handed out by `new Node` so far: cells 1..nAlloc
  released,   \* how many times each cell was handed to `delete`
  pc,         \* "alive", "dtor" (inside ~DLL), "destroyed"
  current,    \* the local `current` of ~DLL
  readFreed,  \* history: ~DLL read next_ of a cell after its delete
  inserted,   \* history: the arguments of InsertAtHead, in call order
  loop_curr,  \* curr_ of the cursor of the loop of main (line 93)
  snap,       \* history: `inserted` when that cursor was taken from begin()
  trav,       \* what the loop has printed so far
  it_curr,    \* curr_ of the cursor `iter` of main (line 99)
  it_base,    \* history: the node begin() gave that cursor
  it_adv,     \* history: executions of curr_ = curr_->next_ on it since
  it_op,      \* history: the last operation applied to it, and its argument
  it_ret,     \* the object the reference the last operator+ returned names
  star,       \* the last value operator* returned
  crashed,    \* the process was killed by a fault
  \* ---- move_constructors.cpp
  nBorn,      \* Person objects constructed so far: objects 1..nBorn
  dead,       \* the Person objects whose lifetime has ended
  age_,       \* Person::age_ of every object
  nicknames_, \* Person::nicknames_ of every object: the buffer the vector holds
  valid_,     \* Person::valid_ of every object
  nBufs,      \* vector buffers allocated so far: buffers 1..nBufs
  bufData,    \* the strings each buffer stores
  bufFreed,   \* how many times each buffer was deallocated
  last        \* history: the last operation and its operands

dllVars == <<head_, size_, next_, prev_, value_, nAlloc, released, pc, current,
             readFreed, inserted, loop_curr, snap, trav, it_curr, it_base,
             it_adv, it_op, it_ret, star, crashed>>

personVars == <<nBorn, dead, age_, nicknames_, valid_, nBufs, bufData, bufFreed,
                last>>

vars == <<dllVars, personVars>>

\* ------------------------------------------------------------ pure helpers
RECURSIVE Reverse(_)
Reverse(s) == IF s = <<>> THEN <<>> ELSE Append(Reverse(Tail(s)), Head(s))

\* A pointer to a cell that `new Node` handed out.
IsNode(p) == p \in 1..nAlloc

\* ------------------------------------------------------------ DLLIterator
\* explicit DLLIterator(Node *head) : curr_(head)
DLLIterator(head) == head

\* DLL::begin and DLL::end.
begin == DLLIterator(head_)
end == DLLIterator(Null)

\* operator!= : identity of the two cursors' nodes.
NotEqual(this, itr) == itr # this

\* The token a cursor operation yields when it reads through a pointer that is
\* not a Node: the behaviour is undefined there.
UB == -3

\* operator++ : curr_ = curr_->next_.
Inc(c) == IF IsNode(c) THEN next_[c] ELSE UB

\* operator* : curr_->value_.
Star(c) == IF IsNode(c) THEN value_[c] ELSE UB

\* The loop of operator+, with its counter i.
RECURSIVE PlusLoopOffByOne(_, _, _)
PlusLoopOffByOne(c, i, offset) ==
  IF i <= offset
    THEN IF IsNode(c) THEN PlusLoopOffByOne(next_[c], i + 1, offset) ELSE UB
    ELSE c

RECURSIVE PlusLoop(_, _, _)
PlusLoop(c, i, offset) ==
  IF i < offset
    THEN IF IsNode(c) THEN PlusLoop(next_[c], i + 1, offset) ELSE UB
    ELSE c

\* operator+(offset).
Plus(c, offset) == PlusLoop(c, 0, offset)

\* operator++ applied k times.
RECURSIVE IncK(_, _)
IncK(c, k) == IF k = 0 THEN c
              ELSE LET d == IncK(c, k - 1) IN IF d = UB THEN UB ELSE Inc(d)

\* ------------------------------------------------------------------- Init
InitDLL ==
  /\ head_ = Null
  /\ size_ = 0
  /\ next_ = [n \in NodeIds |-> Null]
  /\ prev_ = [n \in NodeIds |-> Null]
  /\ value_ = [n \in NodeIds |-> 0]
  /\ nAlloc = 0
  /\ released = [n \in NodeIds |-> 0]
  /\ pc = "alive"
  /\ current = Null
  /\ readFreed = FALSE
  /\ inserted = <<>>
  /\ loop_curr = NoIter
  /\ snap = <<>>
  /\ trav = <<>>
  /\ it_curr = NoIter
  /\ it_base = Null
  /\ it_adv = 0
  /\ it_op = [op |-> "none", arg |-> 0]
  /\ it_ret = "none"
  /\ star = NoValue
  /\ crashed = FALSE

Running == pc = "alive" /\ ~crashed

listVars == <<head_, size_, next_, prev_, value_, nAlloc, inserted>>
dtorVars == <<released, pc, current, readFreed>>
loopVars == <<loop_curr, snap, trav>>
itVars == <<it_curr, it_base, it_adv, it_op, it_ret, star>>

\* ------------------------------------------------------------ DLL actions
\* The links InsertAtHead leaves in prev_.
LinkPrevDropped(new_node) == prev_

LinkPrev(new_node) ==
  IF head_ # Null THEN [prev_ EXCEPT ![head_] = new_node] ELSE prev_

\* The count InsertAtHead leaves in size_.
BumpSizeTwice(n) == n + 2

BumpSize(n) == n + 1

\* The link InsertAtHead gives the new node.
NewNextNull(h) == Null

NewNextSelf(h) == nAlloc + 1

NewNext(h) == h

InsertAtHead(val) ==
  /\ Running
  /\ nAlloc < MaxNodes
  /\ LET new_node == nAlloc + 1 IN
       /\ nAlloc' = new_node
       /\ value_' = [value_ EXCEPT ![new_node] = val]
       /\ next_' = [next_ EXCEPT ![new_node] = NewNext(head_)]
       /\ prev_' = LinkPrev(new_node)
       /\ head_' = new_node
  /\ size_' = BumpSize(size_)
  /\ inserted' = Append(inserted, val)
  /\ UNCHANGED <<dtorVars, loopVars, itVars, crashed,
                 personVars>>

\* ~DLL, one step per line group: `Node *current = head_;`
DtorEnter ==
  /\ Running
  /\ pc' = "dtor"
  /\ current' = head_
  /\ UNCHANGED <<listVars, released, readFreed, loopVars, itVars, crashed,
                 personVars>>

\* One turn of the while loop of ~DLL, deleting before it reads the link.
DtorBodyDeleteFirst ==
  /\ released' = [released EXCEPT ![current] = @ + 1]
  /\ readFreed' = TRUE
  /\ current' = next_[current]

\* One turn of the while loop of ~DLL: read next_, delete, move on.
DtorBody ==
  /\ readFreed' = (readFreed \/ released[current] > 0)
  /\ released' = [released EXCEPT ![current] = @ + 1]
  /\ current' = next_[current]

DtorLoop ==
  /\ pc = "dtor"
  /\ current # Null
  /\ DtorBody
  /\ UNCHANGED <<listVars, pc, loopVars, itVars, crashed,
                 personVars>>

\* The loop is over: `head_ = nullptr;`
DtorExit ==
  /\ pc = "dtor"
  /\ current = Null
  /\ head_' = Null
  /\ pc' = "destroyed"
  /\ UNCHANGED <<size_, next_, prev_, value_, nAlloc, inserted, released,
                 current, readFreed, loopVars, itVars, crashed,
                 personVars>>

\* main, line 93: `DLL::DLLIterator iter = dll.begin()`.
LoopBegin ==
  /\ Running
  /\ loop_curr' = begin
  /\ snap' = inserted
  /\ trav' = <<>>
  /\ UNCHANGED <<listVars, dtorVars, itVars, crashed,
                 personVars>>

\* main, lines 93-95: `iter != dll.end()` holds, print *iter, then ++iter.
LoopStep ==
  /\ Running
  /\ loop_curr # NoIter
  /\ NotEqual(loop_curr, end)
  /\ trav' = Append(trav, Star(loop_curr))
  /\ loop_curr' = Inc(loop_curr)
  /\ UNCHANGED <<listVars, dtorVars, snap, itVars, crashed,
                 personVars>>

\* main, line 99: `DLL::DLLIterator iter = dll.begin();`
ItBegin ==
  /\ Running
  /\ it_curr' = begin
  /\ it_base' = head_
  /\ it_adv' = 0
  /\ it_op' = [op |-> "begin", arg |-> 0]
  /\ it_ret' = "none"
  /\ UNCHANGED <<listVars, dtorVars, loopVars, star, crashed,
                 personVars>>

\* `++iter` written so that it cuts the node it leaves out of the chain.
ItIncDetaches ==
  /\ Running
  /\ it_curr # NoIter
  /\ IsNode(it_curr)
  /\ it_curr' = next_[it_curr]
  /\ next_' = [next_ EXCEPT ![it_curr] = Null]
  /\ it_adv' = it_adv + 1
  /\ it_op' = [op |-> "inc", arg |-> 0]
  /\ UNCHANGED <<head_, size_, prev_, value_, nAlloc, inserted, dtorVars,
                 loopVars, it_base, it_ret, star, crashed, personVars>>

\* `++iter` on the cursor of line 99, wherever it stands.
ItInc ==
  /\ Running
  /\ it_curr # NoIter
  /\ IF Inc(it_curr) # UB
       THEN /\ it_curr' = Inc(it_curr)
            /\ it_adv' = it_adv + 1
            /\ UNCHANGED crashed
       ELSE \* a read of next_ through a pointer that is no Node
            /\ \/ crashed' = TRUE /\ UNCHANGED it_curr
               \/ it_curr' = Wild /\ UNCHANGED crashed
            /\ UNCHANGED it_adv
  /\ it_op' = [op |-> "inc", arg |-> 0]
  /\ UNCHANGED <<listVars, dtorVars, loopVars, it_base, it_ret, star,
                 personVars>>

\* operator+ as a whole: `this` is the curr_ it leaves in the cursor it is
\* called on, `ret` the object its result names, `val` the curr_ of that object.
\* Returning a new cursor and leaving the one it is called on:
OperatorPlusByValue(c, offset) ==
  [this |-> c, ret |-> "copy", val |-> Plus(c, offset)]

\* DLLIterator &operator+(size_t offset) { ...; return *this; }
OperatorPlus(c, offset) ==
  [this |-> Plus(c, offset), ret |-> "this", val |-> Plus(c, offset)]

\* main, line 101: `iter = iter + offset;` the call, then the assignment to
\* iter of the object the result names.
ItPlus(offset) ==
  /\ Running
  /\ it_curr # NoIter
  /\ IF Plus(it_curr, offset) # UB
       THEN /\ it_curr' = OperatorPlus(it_curr, offset).val
            /\ it_ret' = OperatorPlus(it_curr, offset).ret
            /\ it_adv' = it_adv + offset
            /\ UNCHANGED crashed
       ELSE /\ \/ crashed' = TRUE /\ UNCHANGED it_curr
               \/ it_curr' = Wild /\ UNCHANGED crashed
            /\ UNCHANGED <<it_adv, it_ret>>
  /\ it_op' = [op |-> "plus", arg |-> offset]
  /\ UNCHANGED <<listVars, dtorVars, loopVars, it_base, star,
                 personVars>>

\* main, lines 100 and 102: `*iter`.
ItStar ==
  /\ Running
  /\ it_curr # NoIter
  /\ IF Star(it_curr) # UB
       THEN star' = Star(it_curr) /\ UNCHANGED crashed
       ELSE \/ crashed' = TRUE /\ UNCHANGED star
            \/ star' \in Values \cup {0} /\ UNCHANGED crashed
  /\ it_op' = [op |-> "star", arg |-> 0]
  /\ UNCHANGED <<listVars, dtorVars, loopVars, it_curr, it_base, it_adv,
                 it_ret, personVars>>

NextDLL ==
  \/ \E val \in Values : InsertAtHead(val)
  \/ DtorEnter
  \/ DtorLoop
  \/ DtorExit
  \/ LoopBegin
  \/ LoopStep
  \/ ItBegin
  \/ ItInc
  \/ \E offset \in 0..MaxOffset : ItPlus(offset)
  \/ ItStar

\* ------------------------------------------------------------ Person
InitPerson ==
  /\ nBorn = 0
  /\ dead = {}
  /\ age_ = [p \in PersonIds |-> 0]
  /\ nicknames_ = [p \in PersonIds |-> NoBuf]
  /\ valid_ = [p \in PersonIds |-> FALSE]
  /\ nBufs = 0
  /\ bufData = [b \in BufIds |-> <<>>]
  /\ bufFreed = [b \in BufIds |-> 0]
  /\ last = [op |-> "none", tgt |-> NoPerson, src |-> NoPerson]

\* An object that has been constructed and not yet destroyed.
Live(p) == p \in 1..nBorn /\ p \notin dead

\* The strings of the vector nicknames_ of p.
Contents(p) == IF nicknames_[p] = NoBuf THEN <<>> ELSE bufData[nicknames_[p]]

\* The history record of an operation: its name, the object it constructs,
\* assigns to or destroys, and the object it moves from. A query leaves only
\* its name.
Record(op, tgt, src) == [op |-> op, tgt |-> tgt, src |-> src]

\* Deallocation of buffer b (of no buffer: nothing).
Dealloc(freed, b) == IF b = NoBuf THEN freed ELSE [freed EXCEPT ![b] = @ + 1]

\* Person() : age_(0), nicknames_({}), valid_(true)
DefaultConstruct ==
  /\ ~crashed
  /\ nBorn < MaxPersons
  /\ LET this == nBorn + 1 IN
       /\ nBorn' = this
       /\ age_' = [age_ EXCEPT ![this] = 0]
       /\ nicknames_' = [nicknames_ EXCEPT ![this] = NoBuf]
       /\ valid_' = [valid_ EXCEPT ![this] = TRUE]
       /\ last' = Record("Person", this, NoPerson)
  /\ UNCHANGED <<dead, nBufs, bufData, bufFreed, dllVars>>

\* Person(uint32_t age, std::vector<std::string> &&nicknames): the vector of
\* the caller, with the buffer it allocated for its strings, is moved in.
Construct(age, nicknames) ==
  /\ ~crashed
  /\ nBorn < MaxPersons
  /\ nicknames # <<>> => nBufs < MaxBufs
  /\ LET this == nBorn + 1
         buf == IF nicknames = <<>> THEN NoBuf ELSE nBufs + 1
     IN
       /\ nBorn' = this
       /\ nBufs' = IF buf = NoBuf THEN nBufs ELSE buf
       /\ bufData' = IF buf = NoBuf THEN bufData
                     ELSE [bufData EXCEPT ![buf] = nicknames]
       /\ age_' = [age_ EXCEPT ![this] = age]
       /\ nicknames_' = [nicknames_ EXCEPT ![this] = buf]
       /\ valid_' = [valid_ EXCEPT ![this] = TRUE]
       /\ last' = Record("Person", this, NoPerson)
  /\ UNCHANGED <<dead, bufFreed, dllVars>>

\* The move constructor of std::vector, line 60: the new vector takes the
\* buffer, the old one is left empty.
VecMoveConstruct(this, person) ==
  [nicknames_ EXCEPT ![this] = nicknames_[person], ![person] = NoBuf]

\* valid_ after the move constructor: valid_(true), then person.valid_ = false.
CtorValidSourceKept(this, person) == [valid_ EXCEPT ![this] = TRUE]

CtorValid(this, person) ==
  [[valid_ EXCEPT ![this] = TRUE] EXCEPT ![person] = FALSE]

\* Person(Person &&person)
MoveConstruct(person) ==
  /\ ~crashed
  /\ nBorn < MaxPersons
  /\ Live(person)
  /\ LET this == nBorn + 1 IN
       /\ nBorn' = this
       /\ age_' = [age_ EXCEPT ![this] = age_[person]]
       /\ nicknames_' = VecMoveConstruct(this, person)
       /\ valid_' = CtorValid(this, person)
       /\ last' = Record("MoveConstruct", this, person)
  /\ UNCHANGED <<dead, nBufs, bufData, bufFreed, dllVars>>

\* The move assignment of std::vector, line 71. Between two vectors the target
\* deallocates what it held and takes the buffer of the source, which is left
\* empty. Of a vector to itself the standard leaves the result unspecified: a
\* library that tests for it leaves the vector as it was, one that does not
\* (libstdc++, libc++) deallocates the buffer and leaves the vector empty.
VecMoveAssignLeaky(this, other) ==
  IF this # other
    THEN {[nick |-> [nicknames_ EXCEPT ![this] = nicknames_[other], ![other] = NoBuf],
           freed |-> bufFreed]}
    ELSE {[nick |-> nicknames_, freed |-> bufFreed],
          [nick |-> [nicknames_ EXCEPT ![this] = NoBuf],
           freed |-> Dealloc(bufFreed, nicknames_[this])]}

VecMoveAssign(this, other) ==
  IF this # other
    THEN {[nick |-> [nicknames_ EXCEPT ![this] = nicknames_[other], ![other] = NoBuf],
           freed |-> Dealloc(bufFreed, nicknames_[this])]}
    ELSE {[nick |-> nicknames_, freed |-> bufFreed],
          [nick |-> [nicknames_ EXCEPT ![this] = NoBuf],
           freed |-> Dealloc(bufFreed, nicknames_[this])]}

\* age_ after the move assignment: age_ = other.age_.
AssignAgeKept(this, other) == age_

AssignAge(this, other) == [age_ EXCEPT ![this] = age_[other]]

\* valid_ after the move assignment: valid_ = true, then other.valid_ = false.
AssignValid(this, other) ==
  [[valid_ EXCEPT ![this] = TRUE] EXCEPT ![other] = FALSE]

\* Person &operator=(Person &&other), this == &other included.
MoveAssign(this, other) ==
  /\ ~crashed
  /\ Live(this)
  /\ Live(other)
  /\ age_' = AssignAge(this, other)
  /\ \E v \in VecMoveAssign(this, other) :
       /\ nicknames_' = v.nick
       /\ bufFreed' = v.freed
  /\ valid_' = AssignValid(this, other)
  /\ last' = Record("MoveAssign", this, other)
  /\ UNCHANGED <<nBorn, dead, nBufs, bufData, dllVars>>

\* The implicit destructor of Person: its vector deallocates its buffer. The
\* objects are automatic variables, as in main: the one constructed last among
\* the live ones goes first.
Destroy(this) ==
  /\ ~crashed
  /\ Live(this)
  /\ \A p \in PersonIds : Live(p) => p <= this
  /\ dead' = dead \cup {this}
  /\ bufFreed' = Dealloc(bufFreed, nicknames_[this])
  /\ last' = Record("Destroy", this, NoPerson)
  /\ UNCHANGED <<nBorn, age_, nicknames_, valid_, nBufs, bufData, dllVars>>

\* What GetAge returns.
AgeOf(this) == age_[this]

\* uint32_t GetAge()
GetAge(this) ==
  /\ ~crashed
  /\ Live(this)
  /\ last' = Record("GetAge", NoPerson, NoPerson)
  /\ UNCHANGED <<nBorn, dead, age_, nicknames_, valid_, nBufs, bufData,
                 bufFreed, dllVars>>

\* What an index past the end of the vector yields: the behaviour is undefined.
NoString == "<undefined>"

\* What GetNicknameAtI returns: nicknames_[i], unchecked.
NicknameAt(this, i) ==
  IF i < Len(Contents(this)) THEN Contents(this)[i + 1] ELSE NoString

\* std::string &GetNicknameAtI(size_t i). Past the end of the vector the read
\* faults, or yields whatever lies there.
GetNicknameAtI(this, i) ==
  /\ ~crashed
  /\ Live(this)
  /\ last' = Record("GetNicknameAtI", NoPerson, NoPerson)
  /\ IF NicknameAt(this, i) # NoString
       THEN UNCHANGED crashed
       ELSE crashed' \in BOOLEAN
  /\ UNCHANGED <<nBorn, dead, age_, nicknames_, valid_, nBufs, bufData, bufFreed>>
  /\ UNCHANGED <<head_, size_, next_, prev_, value_, nAlloc, released, pc,
                 current, readFreed, inserted, loop_curr, snap, trav, it_curr,
                 it_base, it_adv, it_op, it_ret, star>>

\* What PrintValid prints.
Printed(this) ==
  IF valid_[this] THEN "Object is valid." ELSE "Object is invalid."

\* void PrintValid()
PrintValid(this) ==
  /\ ~crashed
  /\ Live(this)
  /\ last' = Record("PrintValid", NoPerson, NoPerson)
  /\ UNCHANGED <<nBorn, dead, age_, nicknames_, valid_, nBufs, bufData,
                 bufFreed, dllVars>>

NextPerson ==
  \/ DefaultConstruct
  \/ \E age \in Ages, nicknames \in Names : Construct(age, nicknames)
  \/ \E person \in PersonIds : MoveConstruct(person)
  \/ \E this \in PersonIds, other \in PersonIds : MoveAssign(this, other)
  \/ \E this \in PersonIds : Destroy(this)
  \/ \E this \in PersonIds : GetAge(this)
  \/ \E this \in PersonIds, i \in Indices : GetNicknameAtI(this, i)
  \/ \E this \in PersonIds : PrintValid(this)

\* ------------------------------------------------------- specifications
Init == InitDLL /\ InitPerson

\* range_based_for.cpp alone.
SpecDLL == Init /\ [][NextDLL]_vars

\* move_constructors.cpp alone.
SpecPerson == Init /\ [][NextPerson]_vars

Next == NextDLL \/ NextPerson

Spec == Init /\ [][Next]_vars

\* ---------------------------------------------------------- claims, DLL
\* The chain a cursor standing at c still has before it: its values in order.
RECURSIVE ChainFrom(_)
ChainFrom(c) == IF IsNode(c) THEN <<value_[c]>> \o ChainFrom(next_[c]) ELSE <<>>

\* C1: after any number N of InsertAtHead calls on an empty list size_ is N,
\* and the loop of main, run from begin() until the cursor no longer differs
\* from end(), has printed exactly the inserted values, last inserted first.
C1_SizeAndReverseTraversal ==
  /\ size_ = Len(inserted)
  /\ pc = "alive" => ChainFrom(begin) = Reverse(inserted)
  /\ loop_curr # NoIter =>
       /\ Len(trav) <= Len(snap)
       /\ trav = SubSeq(Reverse(snap), 1, Len(trav))
       /\ ~NotEqual(loop_curr, end) => trav = Reverse(snap)

C1_Witness ==
  /\ loop_curr # NoIter
  /\ ~NotEqual(loop_curr, end)
  /\ size_ = MaxNodes
  /\ snap = inserted
  /\ Len(trav) = MaxNodes
  /\ trav[1] # trav[MaxNodes]

\* C2: a cursor from begin() first equals end() after exactly size_ single
\* advances, neither earlier nor later, and begin() != end() is false exactly
\* for the empty list.
C2_EndAfterExactlySize ==
  /\ pc = "alive" =>
       /\ (NotEqual(begin, end) = FALSE) <=> (size_ = 0)
       /\ \A k \in 0..MaxNodes :
            (IncK(begin, k) # UB /\ ~NotEqual(IncK(begin, k), end)) <=> (k = size_)
  /\ loop_curr # NoIter =>
       /\ ~NotEqual(loop_curr, end) <=> (Len(trav) = Len(snap))
       /\ snap = inserted => (~NotEqual(loop_curr, end) <=> (Len(trav) = size_))

C2_Witness ==
  /\ pc = "alive"
  /\ loop_curr # NoIter
  /\ snap = inserted
  /\ size_ >= 2
  /\ Len(trav) = size_
  /\ ~NotEqual(loop_curr, end)

\* C3: for every k below size_, begin() + k dereferenced is begin() advanced by
\* operator++ k times dereferenced; and the cursor of main, moved by any mix of
\* operator+ and operator++, stands where operator++ alone would have put it.
C3_PlusIsRepeatedInc ==
  /\ pc = "alive" =>
       \A k \in 0..MaxNodes : k < size_ =>
         /\ Plus(begin, k) # UB
         /\ Star(Plus(begin, k)) # UB
         /\ Star(Plus(begin, k)) = Star(IncK(begin, k))
  /\ (it_curr # NoIter /\ it_curr # Wild) =>
       it_curr = IncK(DLLIterator(it_base), it_adv)
  /\ (it_op.op = "star" /\ IsNode(it_curr) /\ ~crashed) =>
       star = Star(IncK(DLLIterator(it_base), it_adv))

\* main, lines 99-102, on a list of three: begin() + 2 gives the third element.
C3_Witness ==
  /\ it_op = [op |-> "plus", arg |-> 2]
  /\ it_adv = 2
  /\ it_base = head_
  /\ size_ = 3
  /\ IsNode(it_curr)
  /\ Star(it_curr) = inserted[1]
  /\ inserted[1] # inserted[3]

\* C4: ~DLL hands every allocated node to delete exactly once: none is left,
\* none is deleted twice, and next_ of a node is never read after its delete.
C4_DtorReleasesEachNodeOnce ==
  /\ ~readFreed
  /\ \A n \in NodeIds : released[n] <= 1
  /\ \A n \in NodeIds : released[n] > 0 => (IsNode(n) /\ pc # "alive")
  /\ pc = "destroyed" => \A n \in 1..nAlloc : released[n] = 1

C4_Witness ==
  /\ pc = "destroyed"
  /\ nAlloc = MaxNodes
  /\ \A n \in 1..nAlloc : released[n] = 1

\* ------------------------------------------------------- claims, Person
Transfers == {"MoveConstruct", "MoveAssign"}
Queries == {"GetAge", "GetNicknameAtI", "PrintValid"}

\* C5: right after an operation that constructs an object or moves into it,
\* that object's valid_ is true, and right after a move the source's valid_
\* is false.
C5_ValidAfterConstructOrTransfer ==
  /\ last.op \in {"Person"} \cup Transfers => valid_[last.tgt] = TRUE
  /\ last.op \in Transfers => valid_[last.src] = FALSE

\* C6: a move assignment of an object to itself leaves its valid_ true and
\* its age_ and nicknames_ as they were.
C6_SelfMoveAssignKeepsObject ==
  [][\A p \in PersonIds :
       (last'.op = "MoveAssign" /\ last'.tgt = p /\ last'.src = p) =>
         /\ valid_'[p] = TRUE
         /\ age_'[p] = age_[p]
         /\ Contents(p)' = Contents(p)]_vars

\* C7: a move construction or move assignment between two distinct objects
\* gives the target the age_ the source had and the nicknames_ the source had,
\* element for element; as this holds of every transfer in every reachable
\* state, it holds along a chain of transfers.
C7_TransferCarriesContent ==
  [][\A t \in PersonIds, s \in PersonIds :
       (last'.op \in Transfers /\ last'.tgt = t /\ last'.src = s /\ t # s) =>
         /\ age_'[t] = age_[s]
         /\ Len(Contents(t)') = Len(Contents(s))
         /\ \A i \in 1..Len(Contents(s)) : (Contents(t)')[i] = Contents(s)[i]]_vars

\* main, lines 112-135: andy into andy1 by assignment, andy1 into andy2 by
\* construction; andy2 ends with what andy was constructed with.
C7_Witness ==
  /\ nBorn = 3
  /\ nBufs = 1
  /\ bufFreed[1] = 0
  /\ last = [op |-> "MoveConstruct", tgt |-> 3, src |-> 2]
  /\ ~valid_[1] /\ ~valid_[2] /\ valid_[3]
  /\ Contents(1) = <<>> /\ Contents(2) = <<>>
  /\ AgeOf(3) = 15445
  /\ NicknameAt(3, 0) = "andy"
  /\ NicknameAt(3, 1) = "pavlo"
  /\ Printed(3) = "Object is valid."
  /\ Printed(2) = "Object is invalid."

\* C9: valid_ of an object is true once it is constructed; it goes from true
\* to false exactly in the steps where the object is the source of a move
\* construction or move assignment; it goes from false to true only in a step
\* where the object is the target of a move assignment; GetAge, GetNicknameAtI
\* and PrintValid leave it alone.
C9_ValidityStateMachine ==
  [][\A p \in PersonIds :
       /\ (p > nBorn /\ p <= nBorn') => valid_'[p]
       /\ p <= nBorn =>
            /\ (valid_[p] /\ ~valid_'[p]) <=>
                 (valid_[p] /\ last'.op \in Transfers /\ last'.src = p)
            /\ (~valid_[p] /\ valid_'[p]) =>
                 (last'.op = "MoveAssign" /\ last'.tgt = p)
            /\ last'.op \in Queries => valid_'[p] = valid_[p]]_vars

\* An object invalidated as a source and made valid again as a target.
C9_Witness ==
  /\ last = [op |-> "MoveAssign", tgt |-> 1, src |-> 2]
  /\ valid_[1] /\ ~valid_[2]
  /\ nBorn = 3
  /\ valid_[3]
  /\ nicknames_[3] # NoBuf

\* The live objects whose vector holds buffer b.
Holders(b) == {p \in PersonIds : Live(p) /\ nicknames_[p] = b}

RECURSIVE Walk(_, _)
Walk(c, fuel) ==
  IF ~IsNode(c) \/ fuel = 0 THEN <<>> ELSE <<c>> \o Walk(next_[c], fuel - 1)

\* The nodes reachable from head_; one more than the heap holds shows a cycle.
Chain == Walk(head_, MaxNodes + 1)

\* C11: while the list is alive, size_ is the number of nodes reachable from
\* head_ along next_, no node is met twice, and the last one's next_ is null.
C11_SizeCountsAcyclicChain ==
  pc = "alive" =>
    /\ size_ = Len(Chain)
    /\ Len(Chain) <= nAlloc
    /\ \A i \in 1..Len(Chain), j \in 1..Len(Chain) : Chain[i] = Chain[j] => i = j
    /\ head_ = Null \/ IsNode(head_)
    /\ Chain # <<>> => next_[Chain[Len(Chain)]] = Null

C11_Witness ==
  /\ pc = "alive"
  /\ Len(Chain) = MaxNodes
  /\ size_ = MaxNodes
  /\ next_[Chain[MaxNodes]] = Null
  /\ it_curr = NoIter
  /\ loop_curr = NoIter

\* C15: while the list is alive, prev_ of the head is null and every node
\* reachable from head_ is the prev_ of the node its next_ points to.
C15_BackLinksMirrorForward ==
  pc = "alive" =>
    /\ head_ # Null => prev_[head_] = Null
    /\ \A i \in 1..Len(Chain) :
         next_[Chain[i]] # Null => prev_[next_[Chain[i]]] = Chain[i]

C15_Witness ==
  /\ pc = "alive"
  /\ size_ = MaxNodes
  /\ prev_[head_] = Null
  /\ \A i \in 1..(MaxNodes - 1) : prev_[Chain[i + 1]] = Chain[i]
  /\ prev_[Chain[MaxNodes]] # Null

\* ------------------------------------------------- claims, DLL cursors
\* A step that is the call of operator+ with offset k on the cursor of main.
PlusStep(k) ==
  /\ it_op' = [op |-> "plus", arg |-> k]
  /\ UNCHANGED <<listVars, dtorVars, loopVars, star>>

\* C13: operator+(k) moves the cursor it is called on k nodes forward and
\* hands back that very cursor, not another one.
C13_PlusMovesAndReturnsThis ==
  [][\A k \in 0..MaxOffset :
       (PlusStep(k) /\ Plus(it_curr, k) # UB) =>
         /\ it_ret' = "this"
         /\ it_curr' = OperatorPlus(it_curr, k).this
         /\ it_curr' = IncK(it_curr, k)
         /\ ~crashed']_vars

C13_Witness ==
  /\ it_op = [op |-> "plus", arg |-> 2]
  /\ it_ret = "this"
  /\ IsNode(it_curr)
  /\ it_curr # it_base
  /\ it_curr = IncK(DLLIterator(it_base), 2)
  /\ ~crashed

\* A step that is `++iter`, and one that is `*iter`, on the cursor of main.
IncStep ==
  /\ it_op' = [op |-> "inc", arg |-> 0]
  /\ UNCHANGED <<listVars, dtorVars, loopVars, star>>

StarStep ==
  /\ it_op' = [op |-> "star", arg |-> 0]
  /\ UNCHANGED <<listVars, dtorVars, loopVars, it_curr>>

\* The nodes a cursor standing at c has before the end.
Remaining(c) == Len(Walk(c, MaxNodes + 1))

\* C12, as claimed: operator++ or operator* on a cursor whose curr_ is null,
\* and operator+(offset) with offset beyond the nodes remaining, end the run
\* abnormally and yield neither a value nor a new cursor position.
C12_MisuseTerminates ==
  [][/\ (IncStep /\ it_curr = Null) => (crashed' /\ it_curr' = it_curr)
     /\ (StarStep /\ it_curr = Null) => (crashed' /\ star' = star)
     /\ \A k \in 0..MaxOffset :
          (PlusStep(k) /\ k > Remaining(it_curr)) =>
            (crashed' /\ it_curr' = it_curr)]_vars

\* C12, amended: the three operators check nothing. Within their precondition
\* (a cursor at a node; an offset of at most the nodes remaining) they return
\* the defined position or value and the run goes on. Outside it they read
\* through a pointer that is no node: the run ends abnormally, or the call
\* returns with a cursor that points nowhere or with an arbitrary value.
C12_MisuseUnchecked ==
  [][/\ (IncStep /\ IsNode(it_curr)) =>
          (~crashed' /\ it_curr' = next_[it_curr])
     /\ (IncStep /\ ~IsNode(it_curr)) =>
          \/ crashed' /\ it_curr' = it_curr
          \/ ~crashed' /\ it_curr' = Wild
     /\ (StarStep /\ IsNode(it_curr)) =>
          (~crashed' /\ star' = value_[it_curr])
     /\ (StarStep /\ ~IsNode(it_curr)) =>
          \/ crashed' /\ star' = star
          \/ ~crashed' /\ star' \in Values \cup {0}
     /\ \A k \in 0..MaxOffset :
          /\ (PlusStep(k) /\ k <= Remaining(it_curr)) =>
               (~crashed' /\ it_curr' = IncK(it_curr, k))
          /\ (PlusStep(k) /\ k > Remaining(it_curr)) =>
               \/ crashed' /\ it_curr' = it_curr
               \/ ~crashed' /\ it_curr' = Wild]_vars

\* `++iter` on the end cursor came back, with a cursor that points nowhere.
C12_Witness ==
  /\ it_op = [op |-> "inc", arg |-> 0]
  /\ it_curr = Wild
  /\ ~crashed
  /\ size_ = it_adv
  /\ size_ >= 1

\* C14: no step of begin(), end(), operator++, operator+, operator!= or
\* operator* changes head_, size_ or a node's value_, next_ or prev_, and
\* end() is the cursor with null curr_ whatever the list holds.
C14_CursorsLeaveListAlone ==
  /\ [](end = Null)
  /\ [][(pc = "alive" /\ pc' = "alive" /\ inserted' = inserted) =>
          UNCHANGED <<head_, size_, next_, prev_, value_, nAlloc>>]_vars

\* The loop has run to the end, the cursor of main was moved and read, and
\* the list is as InsertAtHead left it.
C14_Witness ==
  /\ pc = "alive"
  /\ size_ = MaxNodes
  /\ snap = inserted
  /\ loop_curr = end
  /\ it_op.op = "star"
  /\ it_adv >= 2
  /\ star = inserted[1]
  /\ ChainFrom(begin) = Reverse(inserted)
  /\ NotEqual(begin, end)

====
